---- MODULE Spec2Model ----
(***************************************************************************)
(* navsim measurement-level simulation: MeasurementSimulation of           *)
(* navsim/simulations/measurement.py.                                      *)
(*                                                                         *)
(* Numbers.  Lengths and rates are integers.  tsim = 1 / fsim is kept as   *)
(* the fraction [num |-> 1, den |-> fsim], a duration as a fraction of     *)
(* seconds, a carrier Doppler as a fraction over SPEED_OF_LIGHT, so that   *)
(* every quotient of the code is exact here; the rounding of IEEE doubles  *)
(* is not modelled.  np.random.randn() is a draw from RandnVals.           *)
(*                                                                         *)
(* A Python dict is a function whose DOMAIN is its key set.                *)
(***************************************************************************)
EXTENDS Integers, Sequences, FiniteSets, TLC

VARIABLES
    duration,                          \* self.__duration          (fraction)
    tsim,                              \* self.__tsim              (fraction)
    nperiods,                          \* self.__nperiods
    signals,                           \* self.__signals
    is_ionosphere_simulated,           \* self.__is_ionosphere_simulated
    is_troposphere_simulated,          \* self.__is_troposphere_simulated
    is_rx_clock_simulated,             \* self.__is_rx_clock_simulated
    pseudorange_awgn_sigma,            \* self.__pseudorange_awgn_sigma
    carr_psr_awgn_sigma,               \* self.__carr_psr_awgn_sigma
    pseudorange_rate_awgn_sigma,       \* self.__pseudorange_rate_awgn_sigma
    is_atmosphere_drift_uninitialized, \* self.__is_atmosphere_drift_uninitialized
    iono_delay,                        \* self.__iono_delay
    tropo_delay,                       \* self.__tropo_delay
    rx_states,                         \* self.__rx_states
    emitter_states,                    \* self.__emitter_states, as far as the loop has read it
    observables,                       \* self.__observables
    pc,                                \* where simulate() stands
    period,                            \* the loop variable of simulate()
    todo,                              \* emitters the loop of __compute_channel_delays has yet to visit
    code_delays,                       \* locals of __compute_channel_delays,
    carrier_delays,                    \*   handed to __compute_observables
    drifts,
    error                              \* the exception that ended simulate(), or "none"

vars == <<duration, tsim, nperiods, signals, is_ionosphere_simulated,
          is_troposphere_simulated, is_rx_clock_simulated, pseudorange_awgn_sigma,
          carr_psr_awgn_sigma, pseudorange_rate_awgn_sigma,
          is_atmosphere_drift_uninitialized, iono_delay, tropo_delay, rx_states,
          emitter_states, observables, pc, period, todo, code_delays,
          carrier_delays, drifts, error>>

configvars == <<duration, tsim, nperiods, signals, is_ionosphere_simulated,
                is_troposphere_simulated, is_rx_clock_simulated,
                pseudorange_awgn_sigma, carr_psr_awgn_sigma,
                pseudorange_rate_awgn_sigma>>

----------------------------------------------------------------------------
(* Bounds of the model *)

\* Durations are 1/2, ..., MaxDuration/2 seconds.
MaxDuration == 3

\* A trajectory handed to simulate() has 1 .. MaxRows rows.
MaxRows == 4

----------------------------------------------------------------------------
(* Collaborators outside measurement.py *)

SPEED_OF_LIGHT == 299792458

None == "None"

EmptyDict == [e \in {} |-> 0]

Emitters == {"G01", "E01"}

ConstellationOf(e) == IF e = "G01" THEN "GPS" ELSE "Galileo"

\* str.casefold on the constellation names in use
casefold(s) ==
    CASE s = "GPS" -> "gps"
      [] s = "Galileo" -> "galileo"
      [] OTHER -> s

\* navtools.get_signal_properties (fcarrier in kHz)
get_signal_properties(signal_name) ==
    IF signal_name = "l1ca"
    THEN [fcarrier |-> 1575420, transmit_power |-> 27, transmit_antenna_gain |-> 13]
    ELSE [fcarrier |-> 1176450, transmit_power |-> 25, transmit_antenna_gain |-> 15]

\* ionosphere.get_delay(params): a pure function of the parameter bundle
IonosphereGetDelay(params) ==
    (IF params.el = 1 THEN 10 ELSE 2 + 2 * params.el)
      + (IF params.fcarrier = 1575420 THEN 0 ELSE 3)

\* troposphere.get_delay(params): a pure function of the parameter bundle
TroposphereGetDelay(params) == IF params.el = 1 THEN 5 ELSE 5 + params.el

\* compute_clock_states(h0, h2, T, nperiods): two arrays of length nperiods
ClockStates(n) ==
    { [clock_bias  |-> [i \in 1..n |-> 7 + d * (i - 1)],
       clock_drift |-> [i \in 1..n |-> d]] : d \in {2, -3} }

\* compute_carrier_to_noise: a function of its five arguments, left uninterpreted
compute_carrier_to_noise(range, transmit_power, transmit_antenna_gain, fcarrier, js) ==
    <<range, transmit_power, transmit_antenna_gain, fcarrier, js>>

\* np.random.randn()
RandnVals == {-2, 2}

\* Elevations the emitter provider reports (an index into the delay tables)
Elevations == {1, 2}

\* One emitter's state as SatelliteEmitters.from_datetimes reports it
EmitterStatesOf(e) ==
    IF e = "G01"
    THEN { [constellation |-> ConstellationOf(e), range |-> 20000000 - 300 * (el - 1),
            range_rate |-> -(el - 1), el |-> el] : el \in Elevations }
    ELSE { [constellation |-> ConstellationOf(e), range |-> 23000000,
            range_rate |-> 150, el |-> 1] }

\* The visible emitters of one epoch: any subset, each with one of its states
Snapshots ==
    UNION { { f \in [V -> UNION { EmitterStatesOf(e) : e \in V }] :
                \A e \in V : f[e] \in EmitterStatesOf(e) } : V \in SUBSET Emitters }

----------------------------------------------------------------------------
(* Fractions *)

Frac(n, d) == [num |-> n, den |-> d]

\* x / q for an integer x and a fraction q (exact here: every divisor has num = 1)
DivByFrac(x, q) == (x * q.den) \div q.num

\* a / b in binary64 lies above the quotient of the reals: 1 / 49 is rounded
\* down, and a whole number of seconds divided by it comes out as the next
\* double above k * 49 for these k. They are the only such cases among the
\* durations of whole half seconds up to 10 s and the rates below 60 Hz.
QuotientRoundsAbove(a, b) ==
    /\ b = [num |-> 1, den |-> 49]
    /\ \E k \in {1, 2, 4, 5, 8, 9, 10} : a.num = k * a.den

\* np.ceil(a / b) for fractions a >= 0, b > 0, the division made in binary64
CeilOfQuotient(a, b) ==
    LET n == a.num * b.den
        d == a.den * b.num
    IN  (n + d - 1) \div d + (IF QuotientRoundsAbove(a, b) THEN 1 ELSE 0)

----------------------------------------------------------------------------
(* Configurations *)

\* configuration.time: duration in half seconds, fsim in Hz
TimeConfigurations ==
    { [duration |-> Frac(n, 2), fsim |-> f] : n \in 1..MaxDuration, f \in {1, 2} }

\* configuration.constellations.emitters: constellation -> {signal, js}
AllConstellations ==
    [GPS |-> [signal |-> "l1ca", js |-> 0], Galileo |-> [signal |-> "e5a", js |-> 40]]

OnlyGps == [GPS |-> [signal |-> "l1ca", js |-> 0]]

\* configuration.errors
ErrorConfigurations ==
    [ionosphere : {None, "klobuchar"}, troposphere : {None, "saastamoinen"},
     rx_clock : {None, "low_quality_tcxo"}, pseudorange_awgn_sigma : {0, 1},
     carr_psr_awgn_sigma : {0, 1}, pseudorange_rate_awgn_sigma : {0, 1}]

\* How many of the options beyond the atmosphere models a configuration uses
Extras(c) ==
    (IF c.errors.rx_clock = None THEN 0 ELSE 1)
      + c.errors.pseudorange_awgn_sigma + c.errors.carr_psr_awgn_sigma
      + c.errors.pseudorange_rate_awgn_sigma
      + (IF c.constellations = OnlyGps THEN 1 ELSE 0)

\* Five epochs, every error model disabled, the clock disabled, no noise
EndToEndConfiguration ==
    [time |-> [duration |-> Frac(2, 1), fsim |-> 2],
     constellations |-> AllConstellations,
     errors |-> [ionosphere |-> None, troposphere |-> None, rx_clock |-> None,
                 pseudorange_awgn_sigma |-> 0, carr_psr_awgn_sigma |-> 0,
                 pseudorange_rate_awgn_sigma |-> 0]]

\* The configurations explored: every atmosphere and time configuration alone,
\* each further option (clock, one noise channel, a constellation without
\* signal descriptor) on its own over the short durations, and the five
\* epochs of EndToEndConfiguration.
Configurations ==
    { c \in [time : TimeConfigurations, constellations : {AllConstellations, OnlyGps},
             errors : ErrorConfigurations] :
        \/ Extras(c) = 0
        \/ Extras(c) = 1 /\ c.time.duration.num <= 2 /\ c.time.fsim = 1 }
      \cup {EndToEndConfiguration}

----------------------------------------------------------------------------
(* __init__ *)

\* __init_time
InitTime(c) ==
    /\ duration = c.duration
    /\ tsim = Frac(1, c.fsim)
    /\ nperiods = CeilOfQuotient(c.duration, Frac(1, c.fsim)) + 1

\* __init_emitters
InitEmitters(c) ==
    signals = [k \in { casefold(x) : x \in DOMAIN c } |->
                 LET key == CHOOSE x \in DOMAIN c : casefold(x) = k
                 IN  [properties |-> get_signal_properties(c[key].signal),
                      js |-> c[key].js]]

\* __init_errors
InitErrors(c) ==
    /\ is_ionosphere_simulated = (c.ionosphere # None)
    /\ is_troposphere_simulated = (c.troposphere # None)
    /\ is_rx_clock_simulated = (c.rx_clock # None)
    /\ pseudorange_awgn_sigma = c.pseudorange_awgn_sigma
    /\ carr_psr_awgn_sigma = c.carr_psr_awgn_sigma
    /\ pseudorange_rate_awgn_sigma = c.pseudorange_rate_awgn_sigma
    /\ is_atmosphere_drift_uninitialized = TRUE

\* The instance after __init__ with one of the given configurations
Constructed(configurations) ==
    /\ \E c \in configurations :
         /\ InitTime(c.time)
         /\ InitEmitters(c.constellations)
         /\ InitErrors(c.errors)
    /\ observables = << >>
    \* not yet assigned by the constructor
    /\ iono_delay = EmptyDict
    /\ tropo_delay = EmptyDict
    /\ rx_states = [time |-> << >>, pos_rows |-> 0, clock_bias |-> << >>,
                    clock_drift |-> << >>]
    /\ emitter_states = << >>
    /\ pc = "ready"
    /\ period = 0
    /\ todo = {}
    /\ code_delays = EmptyDict
    /\ carrier_delays = EmptyDict
    /\ drifts = EmptyDict
    /\ error = "none"

Init == Constructed(Configurations)

----------------------------------------------------------------------------
(* simulate(): receiver states *)

Min(a, b) == IF a <= b THEN a ELSE b

\* np.linspace(start=0, stop=duration, num=n), as fractions of a second
Linspace(stop, n) ==
    [i \in 1..n |-> IF n = 1 THEN Frac(0, 1)
                    ELSE Frac(stop.num * (i - 1), stop.den * (n - 1))]

\* The clock states used whether or not the receiver clock is simulated
SimulateReceiverStatesClockAlways(rows, clock) ==
    [time        |-> Linspace(duration, nperiods),
     pos_rows    |-> IF rows = 1 THEN nperiods ELSE Min(rows, nperiods),
     clock_bias  |-> clock.clock_bias,
     clock_drift |-> clock.clock_drift]

\* __simulate_receiver_states: rows is the number of rows of rx_pos (1: a single
\* point, tiled), clock what compute_clock_states returns when it is called
SimulateReceiverStates(rows, clock) ==
    [time        |-> Linspace(duration, nperiods),
     pos_rows    |-> IF rows = 1 THEN nperiods ELSE Min(rows, nperiods),
     clock_bias  |-> IF is_rx_clock_simulated THEN clock.clock_bias
                     ELSE [i \in 1..nperiods |-> 0],
     clock_drift |-> IF is_rx_clock_simulated THEN clock.clock_drift
                     ELSE [i \in 1..nperiods |-> 0]]

\* simulate(), up to the loop
Simulate ==
    /\ pc = "ready"
    /\ \E rows \in 1..MaxRows, clock \in ClockStates(nperiods) :
         rx_states' = SimulateReceiverStates(rows, clock)
    /\ emitter_states' = << >>
    /\ period' = 0
    /\ pc' = "loop"
    /\ UNCHANGED <<configvars, is_atmosphere_drift_uninitialized, iono_delay,
                   tropo_delay, observables, todo, code_delays, carrier_delays,
                   drifts, error>>

----------------------------------------------------------------------------
(* __compute_channel_delays *)

\* __update_emitters_in_period without its second loop: emitters out of view stay
UpdateEmittersInPeriodKeepingRemoved(target_emitters, updated_emitters) ==
    LET new_emitters == DOMAIN updated_emitters \ DOMAIN target_emitters
    IN  [emitter \in DOMAIN target_emitters \cup new_emitters |->
           IF emitter \in new_emitters THEN 0 ELSE target_emitters[emitter]]

\* __update_emitters_in_period without its first loop: emitters coming into
\* view get no entry
UpdateEmittersInPeriodNotSeeding(target_emitters, updated_emitters) ==
    LET removed_emitters == DOMAIN target_emitters \ DOMAIN updated_emitters
    IN  [emitter \in DOMAIN target_emitters \ removed_emitters |->
           target_emitters[emitter]]

\* The reconciliation zeroing every entry it leaves in the dict
UpdateEmittersInPeriodResettingAll(target_emitters, updated_emitters) ==
    [emitter \in DOMAIN updated_emitters |-> 0]

\* __update_emitters_in_period: the dict target_emitters after the call
UpdateEmittersInPeriod(target_emitters, updated_emitters) ==
    LET new_emitters == DOMAIN updated_emitters \ DOMAIN target_emitters
        removed_emitters == DOMAIN target_emitters \ DOMAIN updated_emitters
    IN  [emitter \in (DOMAIN target_emitters \cup new_emitters) \ removed_emitters |->
           IF emitter \in new_emitters THEN 0 ELSE target_emitters[emitter]]

\* The delay state zeroed again at the first epoch of every run
InitializedDelayEachRun(delay, emitters) ==
    IF is_atmosphere_drift_uninitialized \/ period = 0
    THEN [emitter \in DOMAIN emitters |-> 0]
    ELSE delay

\* "initializes delay values to calculate drift": the dict a delay state is
\* before the reconciliation
InitializedDelay(delay, emitters) ==
    IF is_atmosphere_drift_uninitialized
    THEN [emitter \in DOMAIN emitters |-> 0]
    ELSE delay

\* self.__signals.get(state.constellation.casefold()) is not None
HasSignal(state) == casefold(state.constellation) \in DOMAIN signals

\* self.__signals.get(state.constellation.casefold()), when it is not None
SignalOf(state) == signals[casefold(state.constellation)]

\* The emitters of the current period
CurrentEmitters == emitter_states[period + 1]

\* The loop run over the keys of the ionosphere delay state as it stands
EmitterItemsOfDelayState(emitters) == DOMAIN emitters \cap DOMAIN iono_delay

\* "for emitter, state in emitters.items()": the emitters a loop visits
EmitterItems(emitters) == DOMAIN emitters

\* The loop head of simulate() and __compute_channel_delays up to its loop:
\* emitters is what the provider reported for this period
BeginPeriod ==
    /\ pc = "loop"
    /\ period < nperiods
    /\ period < rx_states.pos_rows
    /\ \E emitters \in Snapshots :
         /\ emitter_states' = Append(emitter_states, emitters)
         /\ iono_delay' =
              UpdateEmittersInPeriod(InitializedDelay(iono_delay, emitters), emitters)
         /\ tropo_delay' =
              UpdateEmittersInPeriod(InitializedDelay(tropo_delay, emitters), emitters)
         /\ todo' = EmitterItems(emitters)
    /\ is_atmosphere_drift_uninitialized' = FALSE
    /\ code_delays' = EmptyDict
    /\ carrier_delays' = EmptyDict
    /\ drifts' = EmptyDict
    /\ pc' = "channel_delays"
    /\ UNCHANGED <<configvars, rx_states, observables, period, error>>

\* self.__rx_states.pos[period] of a trajectory shorter than the epoch grid
PositionIndexError ==
    /\ pc = "loop"
    /\ period < nperiods
    /\ period >= rx_states.pos_rows
    /\ pc' = "error"
    /\ error' = "IndexError"
    /\ UNCHANGED <<configvars, is_atmosphere_drift_uninitialized, iono_delay,
                   tropo_delay, rx_states, emitter_states, observables, period,
                   todo, code_delays, carrier_delays, drifts>>

\* d with key k set to v (d[k] = v on a dict)
DictSet(d, k, v) == [x \in DOMAIN d \cup {k} |-> IF x = k THEN v ELSE d[x]]

\* The ionosphere model asked whether or not it is simulated
NewIonoDelayAlways(state) ==
    IF HasSignal(state)
    THEN IonosphereGetDelay([el |-> state.el,
                             fcarrier |-> SignalOf(state).properties.fcarrier])
    ELSE 0

NewIonoDelay(state) ==
    IF is_ionosphere_simulated
    THEN IonosphereGetDelay([el |-> state.el,
                             fcarrier |-> SignalOf(state).properties.fcarrier])
    ELSE 0

\* The ionosphere drift taken against one stored delay shared by all emitters
IonoDriftAgainstShared(emitter, new_iono_delay) ==
    IF is_ionosphere_simulated
    THEN DivByFrac(new_iono_delay - iono_delay[CHOOSE x \in DOMAIN iono_delay : TRUE], tsim)
    ELSE 0

\* The ionosphere drift taken against 0.0 instead of the stored delay
IonoDriftFromZero(emitter, new_iono_delay) ==
    IF is_ionosphere_simulated THEN DivByFrac(new_iono_delay, tsim) ELSE 0

IonoDrift(emitter, new_iono_delay) ==
    IF is_ionosphere_simulated
    THEN DivByFrac(new_iono_delay - iono_delay[emitter], tsim)
    ELSE 0

\* The troposphere drift left at 0.0 while the stored delay is the seed
TropoDriftSuppressedAtSeed(emitter, new_tropo_delay) ==
    IF is_troposphere_simulated /\ tropo_delay[emitter] # 0
    THEN DivByFrac(new_tropo_delay - tropo_delay[emitter], tsim)
    ELSE 0

NewTropoDelay(state) ==
    IF is_troposphere_simulated
    THEN TroposphereGetDelay([el |-> state.el])
    ELSE 0

TropoDrift(emitter, new_tropo_delay) ==
    IF is_troposphere_simulated
    THEN DivByFrac(new_tropo_delay - tropo_delay[emitter], tsim)
    ELSE 0

CodeDelay(new_iono_delay, new_tropo_delay) == new_iono_delay + new_tropo_delay

\* The carrier delay with the sign of the code delay
CarrierDelayAsCode(new_iono_delay, new_tropo_delay) == new_iono_delay + new_tropo_delay

CarrierDelay(new_iono_delay, new_tropo_delay) == -new_iono_delay + new_tropo_delay

Drift(iono_drift, tropo_drift) == -iono_drift + tropo_drift

\* One pass of the loop of __compute_channel_delays
ChannelDelay(emitter) ==
    /\ pc = "channel_delays"
    /\ emitter \in todo
    /\ LET state == CurrentEmitters[emitter] IN
         /\ (is_ionosphere_simulated => HasSignal(state))
         /\ LET new_iono_delay == NewIonoDelay(state)
                new_tropo_delay == NewTropoDelay(state)
            IN  /\ iono_delay' = DictSet(iono_delay, emitter, new_iono_delay)
                /\ tropo_delay' = DictSet(tropo_delay, emitter, new_tropo_delay)
                /\ code_delays' =
                     DictSet(code_delays, emitter,
                             CodeDelay(new_iono_delay, new_tropo_delay))
                /\ carrier_delays' =
                     DictSet(carrier_delays, emitter,
                             CarrierDelay(new_iono_delay, new_tropo_delay))
                /\ drifts' =
                     DictSet(drifts, emitter,
                             Drift(IonoDrift(emitter, new_iono_delay),
                                   TropoDrift(emitter, new_tropo_delay)))
    /\ todo' = todo \ {emitter}
    /\ UNCHANGED <<configvars, is_atmosphere_drift_uninitialized, rx_states,
                   emitter_states, observables, pc, period, error>>

\* signal.properties of a constellation without signal descriptor, in the
\* loop of __compute_channel_delays
ChannelDelaySignalError(emitter) ==
    /\ pc = "channel_delays"
    /\ emitter \in todo
    /\ is_ionosphere_simulated
    /\ ~HasSignal(CurrentEmitters[emitter])
    /\ pc' = "error"
    /\ error' = "AttributeError"
    /\ UNCHANGED <<configvars, is_atmosphere_drift_uninitialized, iono_delay,
                   tropo_delay, rx_states, emitter_states, observables, period,
                   todo, code_delays, carrier_delays, drifts>>

\* The failure of a model call recorded, the epoch given up and the loop of
\* simulate() carried on with the next epoch
ModelInvocationErrorSkippingEpoch(emitter) ==
    /\ pc = "channel_delays"
    /\ emitter \in todo
    /\ is_ionosphere_simulated \/ is_troposphere_simulated
    /\ is_ionosphere_simulated => HasSignal(CurrentEmitters[emitter])
    /\ pc' = "loop"
    /\ period' = period + 1
    /\ error' = "ModelError"
    /\ UNCHANGED <<configvars, is_atmosphere_drift_uninitialized, iono_delay,
                   tropo_delay, rx_states, emitter_states, observables,
                   todo, code_delays, carrier_delays, drifts>>

\* ionosphere.get_delay or troposphere.get_delay raises for this emitter:
\* nothing in __compute_channel_delays or simulate() catches it, and the
\* delay state of the emitter is written only after both calls
ModelInvocationError(emitter) ==
    /\ pc = "channel_delays"
    /\ emitter \in todo
    /\ is_ionosphere_simulated \/ is_troposphere_simulated
    /\ is_ionosphere_simulated => HasSignal(CurrentEmitters[emitter])
    /\ pc' = "error"
    /\ error' = "ModelError"
    /\ UNCHANGED <<configvars, is_atmosphere_drift_uninitialized, iono_delay,
                   tropo_delay, rx_states, emitter_states, observables, period,
                   todo, code_delays, carrier_delays, drifts>>

----------------------------------------------------------------------------
(* __compute_observables *)

\* The three np.random.randn() draws of each emitter
RandnDraws(emitters) ==
    [DOMAIN emitters -> [code : RandnVals, carrier : RandnVals, rate : RandnVals]]

\* The code noise added whatever its sigma
CodePseudorangeUnscaledNoise(state, code_delay, clock_bias, randn) ==
    state.range + code_delay + clock_bias + randn

CodePseudorange(state, code_delay, clock_bias, randn) ==
    state.range + code_delay + clock_bias + pseudorange_awgn_sigma * randn

\* The carrier pseudorange without the receiver clock bias
CarrierPseudorangeWithoutClock(state, carrier_delay, clock_bias, randn) ==
    state.range + carrier_delay + carr_psr_awgn_sigma * randn

CarrierPseudorange(state, carrier_delay, clock_bias, randn) ==
    state.range + carrier_delay + clock_bias + carr_psr_awgn_sigma * randn

PseudorangeRate(state, drift, clock_drift, randn) ==
    state.range_rate + drift + clock_drift + pseudorange_rate_awgn_sigma * randn

\* The Doppler without its minus sign
CarrierDopplerNotNegated(pseudorange_rate, fcarrier) ==
    Frac(pseudorange_rate * fcarrier, SPEED_OF_LIGHT)

\* -pseudorange_rate * fcarrier / SPEED_OF_LIGHT, as a fraction
CarrierDoppler(pseudorange_rate, fcarrier) ==
    Frac(-pseudorange_rate * fcarrier, SPEED_OF_LIGHT)

\* The Observables of one emitter
EmitterObservables(state, signal, code_delay, carrier_delay, drift, clock_bias, clock_drift, randn) ==
    LET pseudorange_rate == PseudorangeRate(state, drift, clock_drift, randn.rate)
    IN  [code_pseudorange    |->
           CodePseudorange(state, code_delay, clock_bias, randn.code),
         carrier_pseudorange |->
           CarrierPseudorange(state, carrier_delay, clock_bias, randn.carrier),
         pseudorange_rate    |-> pseudorange_rate,
         carrier_doppler     |->
           CarrierDoppler(pseudorange_rate, signal.properties.fcarrier),
         cn0                 |->
           compute_carrier_to_noise(state.range, signal.properties.transmit_power,
                                    signal.properties.transmit_antenna_gain,
                                    signal.properties.fcarrier, signal.js)]

\* __compute_observables, when every emitter has a signal descriptor
ComputeObservables(emitters, code, carrier, drift, clock_bias, clock_drift, randn) ==
    [emitter \in EmitterItems(emitters) |->
       EmitterObservables(emitters[emitter], SignalOf(emitters[emitter]),
                          code[emitter], carrier[emitter], drift[emitter],
                          clock_bias, clock_drift, randn[emitter])]

\* The new mapping put in front of the list instead of at its end
AppendObservablesInFront(list, new) == <<new>> \o list

\* self.__observables.append(observables)
AppendObservables(list, new) == Append(list, new)

\* The return of __compute_channel_delays, then __compute_observables and the
\* append of simulate()
Synthesize ==
    /\ pc = "channel_delays"
    /\ todo = {}
    /\ \A emitter \in DOMAIN CurrentEmitters :
         HasSignal(CurrentEmitters[emitter])
    /\ \E randn \in RandnDraws(CurrentEmitters) :
         observables' =
           AppendObservables(observables,
             ComputeObservables(CurrentEmitters, code_delays, carrier_delays,
                                drifts, rx_states.clock_bias[period + 1],
                                rx_states.clock_drift[period + 1], randn))
    /\ period' = period + 1
    /\ pc' = "loop"
    /\ UNCHANGED <<configvars, is_atmosphere_drift_uninitialized, iono_delay,
                   tropo_delay, rx_states, emitter_states, todo, code_delays,
                   carrier_delays, drifts, error>>

\* signal.properties of a constellation without signal descriptor, in the
\* loop of __compute_observables
ObservablesSignalError ==
    /\ pc = "channel_delays"
    /\ todo = {}
    /\ \E emitter \in DOMAIN CurrentEmitters :
         ~HasSignal(CurrentEmitters[emitter])
    /\ pc' = "error"
    /\ error' = "AttributeError"
    /\ UNCHANGED <<configvars, is_atmosphere_drift_uninitialized, iono_delay,
                   tropo_delay, rx_states, emitter_states, observables, period,
                   todo, code_delays, carrier_delays, drifts>>

\* The loop of simulate() is exhausted: "measurement simulation complete!"
Complete ==
    /\ pc = "loop"
    /\ period = nperiods
    /\ pc' = "complete"
    /\ UNCHANGED <<configvars, is_atmosphere_drift_uninitialized, iono_delay,
                   tropo_delay, rx_states, emitter_states, observables, period,
                   todo, code_delays, carrier_delays, drifts, error>>

Next ==
    \/ Simulate
    \/ BeginPeriod
    \/ PositionIndexError
    \/ \E emitter \in Emitters : ChannelDelay(emitter)
    \/ \E emitter \in Emitters : ChannelDelaySignalError(emitter)
    \/ \E emitter \in Emitters : ModelInvocationError(emitter)
    \/ Synthesize
    \/ ObservablesSignalError
    \/ Complete

Spec == Init /\ [][Next]_vars

----------------------------------------------------------------------------
(* simulate() called again on the same instance *)

\* Two epochs at either rate, every combination of the atmosphere models,
\* every constellation with its signal descriptor, no clock and no noise
RerunConfigurations ==
    { c \in Configurations :
        /\ c.time.duration = Frac(1, 2)
        /\ c.constellations = AllConstellations
        /\ Extras(c) = 0 }

RerunInit == Constructed(RerunConfigurations)

\* simulate(), up to the loop, on an instance whose first run is complete:
\* the receiver states and the emitter states are assigned anew, the list of
\* results and the delay state are not
Resimulate ==
    /\ pc = "complete"
    /\ Len(observables) = nperiods
    /\ \E rows \in 1..MaxRows, clock \in ClockStates(nperiods) :
         rx_states' = SimulateReceiverStates(rows, clock)
    /\ emitter_states' = << >>
    /\ period' = 0
    /\ pc' = "loop"
    /\ UNCHANGED <<configvars, is_atmosphere_drift_uninitialized, iono_delay,
                   tropo_delay, observables, todo, code_delays, carrier_delays,
                   drifts, error>>

\* Two runs in which no call fails
RerunNext ==
    \/ Simulate
    \/ BeginPeriod
    \/ \E emitter \in Emitters : ChannelDelay(emitter)
    \/ Synthesize
    \/ Complete
    \/ Resimulate

SpecRerun == RerunInit /\ [][RerunNext]_vars

----------------------------------------------------------------------------
(* The epoch grid alone *)

\* fsim in Hz, for the runs that stop once the epoch grid is built
Rates == {1, 2, 3, 10, 49}

\* Every duration of Spec at each of these rates, no atmosphere, no noise,
\* the receiver clock on or off
GridConfigurations ==
    { [time |-> [duration |-> Frac(n, 2), fsim |-> f],
       constellations |-> AllConstellations,
       errors |-> [ionosphere |-> None, troposphere |-> None, rx_clock |-> clock,
                   pseudorange_awgn_sigma |-> 0, carr_psr_awgn_sigma |-> 0,
                   pseudorange_rate_awgn_sigma |-> 0]] :
        n \in 1..MaxDuration, f \in Rates, clock \in {None, "low_quality_tcxo"} }

GridInit == Constructed(GridConfigurations)

\* simulate() up to its loop: __simulate_receiver_states has built the grid
GridNext == Simulate

SpecGrid == GridInit /\ [][GridNext]_vars

----------------------------------------------------------------------------
(* What the claims speak of *)

\* The emitters the Tracker was last called with
LastEmitters == emitter_states[Len(emitter_states)]

\* The Tracker has reconciled the delay state and not yet visited any emitter
Reconciled == pc = "channel_delays" /\ todo = DOMAIN CurrentEmitters

\* The Tracker returns
TrackerReturns == pc = "channel_delays" /\ todo = {}

\* What the ionosphere model returns for an emitter state (0 when disabled)
IonoModelDelay(state) ==
    IF is_ionosphere_simulated
    THEN IonosphereGetDelay(
           [el |-> state.el,
            fcarrier |-> signals[casefold(state.constellation)].properties.fcarrier])
    ELSE 0

\* What the troposphere model returns for an emitter state (0 when disabled)
TropoModelDelay(state) ==
    IF is_troposphere_simulated THEN TroposphereGetDelay([el |-> state.el]) ELSE 0

\* Emitter e is visible in epoch k (epochs count from 0)
VisibleAt(e, k) ==
    /\ k >= 0
    /\ k < Len(emitter_states)
    /\ e \in DOMAIN emitter_states[k + 1]

\* x = n / tsim
IsQuotientByTsim(x, n) == x * tsim.num = n * tsim.den

----------------------------------------------------------------------------
(* C1 *)

\* C1: once the set reconciliation of an epoch has run, and until the next
\* one runs (so also when the Tracker returns), the key set of the ionosphere
\* delay state and the key set of the troposphere delay state are each exactly
\* the key set of that epoch's visible emitters.
C1_DelayStateKeys ==
    Len(emitter_states) > 0 =>
        /\ DOMAIN iono_delay = DOMAIN LastEmitters
        /\ DOMAIN tropo_delay = DOMAIN LastEmitters

\* An epoch after the first in which one emitter has left and another has
\* entered, right after the reconciliation
C1_Witness ==
    /\ Reconciled
    /\ period >= 1
    /\ DOMAIN emitter_states[period] = {"G01"}
    /\ DOMAIN CurrentEmitters = {"E01"}
    /\ DOMAIN iono_delay = {"E01"}

----------------------------------------------------------------------------
(* C2 *)

\* C2: for an emitter visible in epoch k and in epoch k+1, the drift the
\* Tracker produces at k+1 is -iono_drift + tropo_drift where each drift is
\* (delay(k+1) - delay(k)) / step, delay(k) being what that source's model
\* returned for the emitter at epoch k (0 for a disabled source).
C2_DelayStateContinuity ==
    pc = "channel_delays" =>
        \A e \in DOMAIN drifts :
            VisibleAt(e, period - 1) =>
                IsQuotientByTsim(
                    drifts[e],
                    -(IonoModelDelay(CurrentEmitters[e])
                        - IonoModelDelay(emitter_states[period][e]))
                      + (TropoModelDelay(CurrentEmitters[e])
                           - TropoModelDelay(emitter_states[period][e])))

\* An emitter visible in two consecutive epochs whose delays changed between
\* them, with both models enabled and a step other than 1
C2_Witness ==
    /\ pc = "channel_delays"
    /\ is_ionosphere_simulated /\ is_troposphere_simulated
    /\ tsim.den = 2
    /\ "G01" \in DOMAIN drifts
    /\ VisibleAt("G01", period - 1)
    /\ emitter_states[period]["G01"].el = 1
    /\ CurrentEmitters["G01"].el = 2
    /\ drifts["G01"] = 12

----------------------------------------------------------------------------
(* C3 *)

\* C3: an emitter that was visible in some earlier epoch, was absent from the
\* previous epoch and is visible again has both delay states re-seeded to 0.0
\* by the reconciliation, and its drift is taken against 0.0, not against the
\* delay it had before it left.
C3_ChurnReset ==
    pc = "channel_delays" =>
        \A e \in DOMAIN CurrentEmitters :
            (/\ ~VisibleAt(e, period - 1)
             /\ \E j \in 0..(period - 2) : VisibleAt(e, j)) =>
                /\ e \in todo => iono_delay[e] = 0 /\ tropo_delay[e] = 0
                /\ e \in DOMAIN drifts =>
                       IsQuotientByTsim(drifts[e],
                                        -IonoModelDelay(CurrentEmitters[e])
                                          + TropoModelDelay(CurrentEmitters[e]))

\* An emitter seen in epoch 0, absent in epochs 1 and 2 and back in epoch 3,
\* with both models enabled: its drift is that of a fresh emitter
C3_Witness ==
    /\ pc = "channel_delays"
    /\ period = 3
    /\ is_ionosphere_simulated /\ is_troposphere_simulated
    /\ VisibleAt("G01", 0) /\ ~VisibleAt("G01", 1) /\ ~VisibleAt("G01", 2)
    /\ emitter_states[1]["G01"].el = 2
    /\ "G01" \in DOMAIN drifts
    /\ CurrentEmitters["G01"].el = 2
    /\ drifts["G01"] = 2

----------------------------------------------------------------------------
(* C4 *)

\* C4: the three mappings the Tracker returns have exactly the keys of the
\* epoch's emitters, and so has the observable mapping appended for each epoch.
C4_OutputKeys ==
    /\ TrackerReturns =>
           /\ DOMAIN code_delays = DOMAIN CurrentEmitters
           /\ DOMAIN carrier_delays = DOMAIN CurrentEmitters
           /\ DOMAIN drifts = DOMAIN CurrentEmitters
    /\ \A i \in 1..Len(observables) :
           DOMAIN observables[i] = DOMAIN emitter_states[i]

\* The epoch after one with both emitters visible has only one emitter, and
\* its observable mapping has been appended
C4_Witness ==
    /\ pc = "loop"
    /\ Len(observables) = 2
    /\ DOMAIN emitter_states[1] = {"G01", "E01"}
    /\ DOMAIN emitter_states[2] = {"E01"}
    /\ DOMAIN observables[2] = {"E01"}
    /\ DOMAIN drifts = {"E01"}

----------------------------------------------------------------------------
(* C5 *)

\* The delay the drift of emitter e is taken against in the current epoch:
\* what the model returned in the previous epoch if e was visible then, else 0
IonoBaseline(e) ==
    IF VisibleAt(e, period - 1) THEN IonoModelDelay(emitter_states[period][e]) ELSE 0

TropoBaseline(e) ==
    IF VisibleAt(e, period - 1) THEN TropoModelDelay(emitter_states[period][e]) ELSE 0

\* C5: for every emitter the Tracker has visited, code_delay = new_iono +
\* new_tropo, carrier_delay = -new_iono + new_tropo and drift = -iono_drift +
\* tropo_drift.
C5_SignConvention ==
    pc = "channel_delays" =>
        \A e \in DOMAIN code_delays :
            LET new_iono == IonoModelDelay(CurrentEmitters[e])
                new_tropo == TropoModelDelay(CurrentEmitters[e])
            IN  /\ code_delays[e] = new_iono + new_tropo
                /\ carrier_delays[e] = -new_iono + new_tropo
                /\ IsQuotientByTsim(drifts[e],
                                    -(new_iono - IonoBaseline(e))
                                      + (new_tropo - TropoBaseline(e)))

\* new_iono = 10 and new_tropo = 5 give code_delay = 15 and carrier_delay = -5
C5_Witness ==
    /\ pc = "channel_delays"
    /\ "G01" \in DOMAIN code_delays
    /\ IonoModelDelay(CurrentEmitters["G01"]) = 10
    /\ TropoModelDelay(CurrentEmitters["G01"]) = 5
    /\ code_delays["G01"] = 15
    /\ carrier_delays["G01"] = -5

----------------------------------------------------------------------------
(* C6 *)

\* C6: a disabled atmosphere model contributes 0.0 to every delay and every
\* drift, and its delay state holds 0.0 for every emitter; with the ionosphere
\* disabled code_delay = carrier_delay = the troposphere delay and drift = the
\* troposphere drift (and likewise with the troposphere disabled).
C6_DisabledModelZeroing ==
    /\ ~is_ionosphere_simulated =>
           /\ \A e \in DOMAIN iono_delay : iono_delay[e] = 0
           /\ pc = "channel_delays" =>
                  \A e \in DOMAIN code_delays :
                      LET tropo == TroposphereGetDelay([el |-> CurrentEmitters[e].el])
                          new_tropo == IF is_troposphere_simulated THEN tropo ELSE 0
                      IN  /\ code_delays[e] = new_tropo
                          /\ carrier_delays[e] = new_tropo
                          /\ IsQuotientByTsim(drifts[e], new_tropo - TropoBaseline(e))
    /\ ~is_troposphere_simulated =>
           /\ \A e \in DOMAIN tropo_delay : tropo_delay[e] = 0
           /\ pc = "channel_delays" =>
                  \A e \in DOMAIN code_delays :
                      /\ is_ionosphere_simulated =>
                             /\ code_delays[e] = IonoModelDelay(CurrentEmitters[e])
                             /\ carrier_delays[e] = -IonoModelDelay(CurrentEmitters[e])
                      /\ IsQuotientByTsim(drifts[e],
                                          -(IonoModelDelay(CurrentEmitters[e])
                                              - IonoBaseline(e)))

\* Ionosphere disabled, troposphere enabled: an emitter that re-enters in the
\* third epoch has code_delay = carrier_delay = 7, the troposphere delay
C6_Witness ==
    /\ pc = "channel_delays"
    /\ ~is_ionosphere_simulated /\ is_troposphere_simulated
    /\ period = 2
    /\ VisibleAt("G01", 0) /\ ~VisibleAt("G01", 1)
    /\ "G01" \in DOMAIN code_delays
    /\ CurrentEmitters["G01"].el = 2
    /\ code_delays["G01"] = 7
    /\ carrier_delays["G01"] = 7
    /\ iono_delay["G01"] = 0

----------------------------------------------------------------------------
(* C7 *)

\* The mapping m holds the observables of the emitters of epoch k: same keys,
\* and the cn0 of each emitter computed from that epoch's range
IsMappingOfEpoch(m, k) ==
    /\ k < Len(emitter_states)
    /\ DOMAIN m = DOMAIN emitter_states[k + 1]
    /\ \A e \in DOMAIN m : m[e].cn0[1] = emitter_states[k + 1][e].range

\* C7: in a run on a fresh instance the epoch index only ever goes up by one,
\* starting at 0; the Tracker is entered for epoch `period` and for no other;
\* a mapping is appended exactly when the index goes up, after the Tracker of
\* that epoch has returned, and it is the mapping of that epoch, put at the
\* end; so the list always has one entry per epoch processed, entry i that of
\* epoch i, and on completion one entry per epoch of the grid.
C7_EpochOrder ==
    [][ /\ pc = "ready" => period' = 0 /\ observables' = << >>
        /\ pc # "ready" => period' \in {period, period + 1}
        /\ pc' = "channel_delays" /\ pc = "loop" =>
               /\ period' = period
               /\ Len(emitter_states') = period + 1
        /\ period' = period + 1 =>
               /\ TrackerReturns
               /\ Len(observables) = period
               /\ observables' # observables
        /\ observables' # observables =>
               /\ period' = period + 1
               /\ Len(observables') = Len(observables) + 1
               /\ SubSeq(observables', 1, Len(observables)) = observables
               /\ IsMappingOfEpoch(observables'[Len(observables')], period)
        /\ pc' = "complete" =>
               /\ period' = nperiods
               /\ Len(observables') = nperiods
               /\ \A i \in 1..nperiods : IsMappingOfEpoch(observables'[i], i - 1)
      ]_vars

\* A completed run of four epochs whose emitters differ from epoch to epoch
C7_Witness ==
    /\ pc = "complete"
    /\ nperiods = 4
    /\ Len(observables) = 4
    /\ DOMAIN observables[1] = {"G01"}
    /\ DOMAIN observables[2] = {"E01"}
    /\ DOMAIN observables[3] = {}
    /\ DOMAIN observables[4] = {"G01", "E01"}
    /\ observables[1]["G01"].cn0[1] = 20000000
    /\ observables[4]["G01"].cn0[1] = 19999700

----------------------------------------------------------------------------
(* C8 *)

Noiseless ==
    /\ pseudorange_awgn_sigma = 0
    /\ carr_psr_awgn_sigma = 0
    /\ pseudorange_rate_awgn_sigma = 0

\* The observables of epoch k as the inputs of the run alone determine them:
\* the configuration, the emitter states of epochs k-1 and k, the clock arrays
NoiselessObservables(k) ==
    [e \in DOMAIN emitter_states[k + 1] |->
       LET state == emitter_states[k + 1][e]
           signal == signals[casefold(state.constellation)]
           was_visible == k >= 1 /\ e \in DOMAIN emitter_states[k]
           iono == IonoModelDelay(state)
           tropo == TropoModelDelay(state)
           iono_before == IF was_visible THEN IonoModelDelay(emitter_states[k][e]) ELSE 0
           tropo_before == IF was_visible THEN TropoModelDelay(emitter_states[k][e]) ELSE 0
           drift == ((-(iono - iono_before) + (tropo - tropo_before)) * tsim.den)
                      \div tsim.num
           rate == state.range_rate + drift + rx_states.clock_drift[k + 1]
       IN  [code_pseudorange    |-> state.range + iono + tropo
                                      + rx_states.clock_bias[k + 1],
            carrier_pseudorange |-> state.range - iono + tropo
                                      + rx_states.clock_bias[k + 1],
            pseudorange_rate    |-> rate,
            carrier_doppler     |->
              [num |-> -rate * signal.properties.fcarrier, den |-> SPEED_OF_LIGHT],
            cn0                 |->
              <<state.range, signal.properties.transmit_power,
                signal.properties.transmit_antenna_gain,
                signal.properties.fcarrier, signal.js>>]]

\* C8: with the three noise sigmas 0.0 the observable sequence of a run on a
\* fresh instance is a function of the run's inputs alone (configuration,
\* emitter states, clock arrays): it depends neither on the random draws nor
\* on the order in which the emitters of an epoch are visited, so two runs
\* with identical inputs produce identical sequences.
C8_NoiselessDeterminism ==
    Noiseless =>
        \A i \in 1..Len(observables) : observables[i] = NoiselessObservables(i - 1)

\* A noiseless run with both atmosphere models and the clock simulated that
\* has synthesized two epochs with both emitters visible
C8_Witness ==
    /\ Noiseless
    /\ is_ionosphere_simulated /\ is_troposphere_simulated /\ is_rx_clock_simulated
    /\ Len(observables) = 2
    /\ DOMAIN observables[1] = {"G01", "E01"}
    /\ DOMAIN observables[2] = {"G01", "E01"}
    /\ emitter_states[1]["G01"].el # emitter_states[2]["G01"].el

----------------------------------------------------------------------------
(* C9 *)

\* An epoch has been synthesized; its index is period - 1, its mapping the
\* last of the list and drifts still what the Tracker returned for it
Synthesized == pc \in {"loop", "complete"} /\ period >= 1

\* Emitter e of the epoch just synthesized is closing, with zero atmospheric
\* drift and zero receiver clock drift
ClosingWithoutDrift(e) ==
    /\ emitter_states[period][e].range_rate < 0
    /\ drifts[e] = 0
    /\ rx_states.clock_drift[period] = 0

\* C9 as claimed: a closing emitter with zero atmospheric drift and zero
\* receiver clock drift has carrier_doppler > 0.
C9_DopplerSignAsClaimed ==
    Synthesized =>
        \A e \in DOMAIN observables[period] :
            ClosingWithoutDrift(e) => observables[period][e].carrier_doppler.num > 0

\* C9 (amended): a closing emitter with zero atmospheric drift and zero
\* receiver clock drift has carrier_doppler > 0 when the pseudorange-rate
\* noise sigma is 0.0.
C9_DopplerSign ==
    Synthesized /\ pseudorange_rate_awgn_sigma = 0 =>
        \A e \in DOMAIN observables[period] :
            ClosingWithoutDrift(e) => observables[period][e].carrier_doppler.num > 0

\* A closing emitter whose ionosphere and troposphere delays did not change
\* since the previous epoch: zero drift with both models enabled
C9_Witness ==
    /\ Synthesized
    /\ pseudorange_rate_awgn_sigma = 0
    /\ is_ionosphere_simulated /\ is_troposphere_simulated
    /\ period >= 2
    /\ "G01" \in DOMAIN observables[period]
    /\ ClosingWithoutDrift("G01")
    /\ observables[period]["G01"].carrier_doppler.num = 1575420

----------------------------------------------------------------------------
(* C10 *)

\* C10: with both atmosphere models disabled, the clock disabled and the
\* three noise sigmas 0.0, every emitter of every epoch has code_pseudorange =
\* carrier_pseudorange = range, pseudorange_rate = range_rate, and so a
\* carrier_doppler of 0 when its range rate is 0.
C10_EndToEndIdentity ==
    (/\ ~is_ionosphere_simulated /\ ~is_troposphere_simulated
     /\ ~is_rx_clock_simulated /\ Noiseless) =>
        \A i \in 1..Len(observables) : \A e \in DOMAIN observables[i] :
            /\ e \in DOMAIN emitter_states[i]
            /\ observables[i][e].code_pseudorange = emitter_states[i][e].range
            /\ observables[i][e].carrier_pseudorange = emitter_states[i][e].range
            /\ observables[i][e].pseudorange_rate = emitter_states[i][e].range_rate
            /\ emitter_states[i][e].range_rate = 0 =>
                   observables[i][e].carrier_doppler.num = 0

\* The end-to-end scenario: one emitter at range 20,000,000 and range rate 0
\* in each of five epochs; every epoch, the first included, has both
\* pseudoranges at 20,000,000 and a Doppler of 0
C10_Witness ==
    /\ pc = "complete"
    /\ nperiods = 5
    /\ ~is_ionosphere_simulated /\ ~is_troposphere_simulated
    /\ ~is_rx_clock_simulated /\ Noiseless
    /\ Len(observables) = 5
    /\ \A i \in 1..5 :
           /\ DOMAIN emitter_states[i] = {"G01"}
           /\ emitter_states[i]["G01"].range = 20000000
           /\ emitter_states[i]["G01"].range_rate = 0
           /\ observables[i]["G01"].code_pseudorange = 20000000
           /\ observables[i]["G01"].carrier_pseudorange = 20000000
           /\ observables[i]["G01"].carrier_doppler.num = 0

----------------------------------------------------------------------------
(* C11 *)

\* C11: a run that ends on a missing signal descriptor ends before any epoch
\* is processed: no observable mapping has been appended and the delay state
\* has not been touched.
C11_FailFastOnMissingSignal ==
    error = "AttributeError" =>
        /\ period = 0
        /\ Len(observables) = 0
        /\ is_atmosphere_drift_uninitialized
        /\ iono_delay = EmptyDict
        /\ tropo_delay = EmptyDict

----------------------------------------------------------------------------
(* C12 *)

\* C12: simulate() never builds a Receiver Truth State whose position array
\* is shorter than the epoch grid and the clock arrays: a trajectory of more
\* than one and fewer than nperiods rows makes the run fail instead.
C12_TrajectoryShapeError ==
    pc # "ready" =>
        /\ rx_states.pos_rows = Len(rx_states.time)
        /\ rx_states.pos_rows = Len(rx_states.clock_bias)

----------------------------------------------------------------------------
(* C15 *)

\* C15: the reconciliation of a delay-state map against the visible set of
\* an epoch leaves a map whose keys are exactly the visible emitters, in which
\* every emitter that was stored and is still visible keeps its stored value,
\* every entering emitter has the value 0 and no leaving emitter remains; and
\* reconciling this map against the same visible set again changes nothing.
C15_Reconciliation ==
    [][ (pc = "loop" /\ pc' = "channel_delays" /\ ~is_atmosphere_drift_uninitialized) =>
          LET emitters == emitter_states'[Len(emitter_states')]
              IsReconciled(before, after) ==
                  /\ DOMAIN after = DOMAIN emitters
                  /\ \A e \in DOMAIN emitters \cap DOMAIN before : after[e] = before[e]
                  /\ \A e \in DOMAIN emitters \ DOMAIN before : after[e] = 0
                  /\ UpdateEmittersInPeriod(after, emitters) = after
          IN  /\ IsReconciled(iono_delay, iono_delay')
              /\ IsReconciled(tropo_delay, tropo_delay')
      ]_vars

\* E01 left after epoch 0 and enters again in epoch 2, where G01 is kept:
\* E01's stored 13 is gone and it is seeded with 0, G01 keeps its 6 and 7
C15_Witness ==
    /\ Reconciled
    /\ period = 2
    /\ VisibleAt("E01", 0)
    /\ ~VisibleAt("E01", 1)
    /\ VisibleAt("G01", 1)
    /\ iono_delay = [G01 |-> 6, E01 |-> 0]
    /\ tropo_delay = [G01 |-> 7, E01 |-> 0]

----------------------------------------------------------------------------
(* C16 *)

\* C16: in the first epoch in which an emitter is visible after not being
\* visible in the preceding epoch, epoch 0 of a fresh instance included, its
\* drift is (-new_iono + new_tropo) / tsim, which is carrier_delay / tsim: the
\* full step from the seed 0 to the model delays, not suppressed.
C16_FirstEpochTransient ==
    pc = "channel_delays" =>
        \A e \in DOMAIN drifts :
            ~VisibleAt(e, period - 1) =>
                /\ IsQuotientByTsim(drifts[e],
                                    -IonoModelDelay(CurrentEmitters[e])
                                      + TropoModelDelay(CurrentEmitters[e]))
                /\ IsQuotientByTsim(drifts[e], carrier_delays[e])

\* Epoch 0 of a fresh instance at fsim = 2 with both models on: G01 at
\* elevation 2 has delays 6 and 7, so carrier delay 1 and drift 2
C16_Witness ==
    /\ pc = "channel_delays"
    /\ period = 0
    /\ is_ionosphere_simulated
    /\ is_troposphere_simulated
    /\ tsim = Frac(1, 2)
    /\ "G01" \in DOMAIN drifts
    /\ CurrentEmitters["G01"].el = 2
    /\ carrier_delays["G01"] = 1
    /\ drifts["G01"] = 2

----------------------------------------------------------------------------
(* C20 *)

\* C20: with the code and carrier noise sigmas 0, for every epoch and every
\* emitter code_pseudorange - carrier_pseudorange is twice the ionosphere
\* delay the model returns for that emitter in that epoch (0 when the model
\* is disabled), whatever the range, the troposphere delay, the receiver
\* clock bias and the rate noise.
C20_CodeCarrierDivergence ==
    (pseudorange_awgn_sigma = 0 /\ carr_psr_awgn_sigma = 0) =>
        \A k \in 1..Len(observables) :
            \A e \in DOMAIN observables[k] :
                observables[k][e].code_pseudorange - observables[k][e].carrier_pseudorange
                  = 2 * IonoModelDelay(emitter_states[k][e])

\* A synthesized epoch with clock bias 7, troposphere 5 and ionosphere 13 for
\* E01 at range 23000000: code 23000025, carrier 22999999, 26 apart
C20_Witness ==
    /\ Len(observables) >= 1
    /\ is_rx_clock_simulated
    /\ is_troposphere_simulated
    /\ "E01" \in DOMAIN observables[1]
    /\ observables[1]["E01"].code_pseudorange = 23000025
    /\ observables[1]["E01"].carrier_pseudorange = 22999999

----------------------------------------------------------------------------
(* C18 *)

\* C18: the spacing between consecutive samples of the epoch grid (the time
\* array of the Receiver Truth State) is the fixed step tsim = 1 / fsim by
\* which the Tracker divides, for every duration and rate.
C18_GridSpacingIsStep ==
    pc # "ready" =>
        \A i \in 1..(Len(rx_states.time) - 1) :
            LET t == rx_states.time[i]
                u == rx_states.time[i + 1]
            IN  \* u - t = tsim, cross-multiplied
                (u.num * t.den - t.num * u.den) * tsim.den = tsim.num * (u.den * t.den)

----------------------------------------------------------------------------
(* C17 *)

\* d and its successor dp agree on every key but e
SameButFor(d, dp, e) ==
    /\ DOMAIN dp = DOMAIN d \cup {e}
    /\ \A x \in DOMAIN d \ {e} : dp[x] = d[x]

\* What the Tracker returns for the current epoch and the delay state it
\* leaves, from the inputs of the epoch alone: the visible emitters and, for
\* each of them, its own entry of the delay state at the start of the epoch
EpochResult ==
    [e \in DOMAIN CurrentEmitters |->
       LET new_iono == IonoModelDelay(CurrentEmitters[e])
           new_tropo == TropoModelDelay(CurrentEmitters[e])
       IN  [code    |-> new_iono + new_tropo,
            carrier |-> -new_iono + new_tropo,
            drift   |-> ((-(new_iono - IonoBaseline(e)) + (new_tropo - TropoBaseline(e)))
                          * tsim.den) \div tsim.num,
            iono    |-> new_iono,
            tropo   |-> new_tropo]]

\* C17: within one epoch, processing an emitter reads and writes only that
\* emitter's entries of the delay state and of the three result mappings, and
\* once every visible emitter has been processed the result mappings and the
\* delay state are the same whatever the order in which they were processed.
C17_IntraEpochIndependence ==
    [][ (pc = "channel_delays" /\ pc' = "channel_delays") =>
          /\ \E e \in todo :
               /\ todo' = todo \ {e}
               /\ SameButFor(iono_delay, iono_delay', e)
               /\ SameButFor(tropo_delay, tropo_delay', e)
               /\ SameButFor(code_delays, code_delays', e)
               /\ SameButFor(carrier_delays, carrier_delays', e)
               /\ SameButFor(drifts, drifts', e)
          /\ todo' = {} =>
               /\ code_delays' = [e \in DOMAIN CurrentEmitters |-> EpochResult[e].code]
               /\ carrier_delays' = [e \in DOMAIN CurrentEmitters |-> EpochResult[e].carrier]
               /\ drifts' = [e \in DOMAIN CurrentEmitters |-> EpochResult[e].drift]
               /\ iono_delay' = [e \in DOMAIN CurrentEmitters |-> EpochResult[e].iono]
               /\ tropo_delay' = [e \in DOMAIN CurrentEmitters |-> EpochResult[e].tropo]
      ]_vars

\* Epoch 1 at fsim 1 with both emitters visible in epochs 0 and 1 and both
\* processed: G01 went from elevation 1 to 2 (drift -(6 - 10) + (7 - 5) = 6),
\* E01 did not move (drift 0)
C17_Witness ==
    /\ TrackerReturns
    /\ period = 1
    /\ tsim = Frac(1, 1)
    /\ is_ionosphere_simulated
    /\ is_troposphere_simulated
    /\ DOMAIN emitter_states[1] = {"G01", "E01"}
    /\ drifts = [G01 |-> 6, E01 |-> 0]
    /\ iono_delay = [G01 |-> 6, E01 |-> 13]

----------------------------------------------------------------------------
(* C19 *)

\* C19: when a call of an atmosphere model fails in epoch j, the run ends
\* there: the list of results is left as it is and holds exactly the mappings
\* of epochs 0..j-1 in order, and from the ended run no further step is taken
\* (no retry, no later epoch).
C19_ModelErrorAborts ==
    [][ /\ pc # "error"
        /\ error' = "ModelError" =>
             /\ pc' = "error"
             /\ period' = period
             /\ observables' = observables
             /\ Len(observables) = period
             /\ \A k \in 1..period : IsMappingOfEpoch(observables[k], k - 1)
      ]_vars

\* A model call fails in epoch 2 on the second emitter visited: the result
\* holds the two mappings of epochs 0 and 1
C19_Witness ==
    /\ pc = "error"
    /\ error = "ModelError"
    /\ period = 2
    /\ Len(observables) = 2
    /\ DOMAIN CurrentEmitters = {"G01", "E01"}
    /\ Cardinality(todo) = 1

----------------------------------------------------------------------------
(* C13 *)

\* The smallest integer at or above duration / tsim, in the reals
ExactCeilOfDurationByStep ==
    LET n == duration.num * tsim.den
        d == duration.den * tsim.num
    IN  CHOOSE c \in 0..n : c * d >= n /\ (c - 1) * d < n

\* C13: the epoch grid has exactly ceil(duration * fsim) + 1 samples, the
\* first 0 and the last the duration, and the clock bias and clock drift
\* arrays have the same number of entries.
C13_EpochGridSize ==
    pc # "ready" =>
         /\ nperiods = ExactCeilOfDurationByStep + 1
         /\ Len(rx_states.time) = ExactCeilOfDurationByStep + 1
         /\ rx_states.time[1].num = 0
         /\ LET last == rx_states.time[Len(rx_states.time)]
            IN  last.num * duration.den = duration.num * last.den
         /\ Len(rx_states.clock_bias) = Len(rx_states.time)
         /\ Len(rx_states.clock_drift) = Len(rx_states.time)

----------------------------------------------------------------------------
(* C14 *)

\* The second run on the instance is under way: the list holds the mappings
\* of the first run and one per epoch processed since
InSecondRun == Len(observables) = nperiods + period

\* C14: calling simulate() again on a completed instance does not reset the
\* delay state. The call leaves the flag cleared and the stored delays, which
\* are those of the last epoch of the first run; at the first epoch of the
\* second run the reconciliation keeps them for the emitters still visible
\* and seeds 0 only for the others, and every drift of that epoch is taken
\* against these values.
C14_DelayStateSurvivesRerun ==
    [][ /\ (pc = "complete" /\ pc' = "loop") =>
             /\ ~is_atmosphere_drift_uninitialized'
             /\ iono_delay' = iono_delay
             /\ tropo_delay' = tropo_delay
             /\ iono_delay = [e \in DOMAIN LastEmitters |-> IonoModelDelay(LastEmitters[e])]
             /\ tropo_delay = [e \in DOMAIN LastEmitters |-> TropoModelDelay(LastEmitters[e])]
        /\ (InSecondRun /\ period = 0 /\ pc = "loop" /\ pc' = "channel_delays") =>
             /\ \A e \in DOMAIN iono_delay' :
                  iono_delay'[e] = IF e \in DOMAIN iono_delay THEN iono_delay[e] ELSE 0
             /\ \A e \in DOMAIN tropo_delay' :
                  tropo_delay'[e] = IF e \in DOMAIN tropo_delay THEN tropo_delay[e] ELSE 0
        /\ (InSecondRun /\ period = 0 /\ pc = "channel_delays" /\ pc' = "channel_delays") =>
             \A e \in todo \ todo' :
                 IsQuotientByTsim(drifts'[e],
                     -(IonoModelDelay(CurrentEmitters[e]) - iono_delay[e])
                       + (TropoModelDelay(CurrentEmitters[e]) - tropo_delay[e]))
      ]_vars

\* The first run ended with G01 at elevation 2 (range 19999700, delays 6 and
\* 7); in epoch 0 of the second run G01 is at elevation 1 (delays 10 and 5)
\* and its drift at fsim 1 is -(10 - 6) + (5 - 7) = -6, not the -5 of a
\* fresh instance
C14_Witness ==
    /\ InSecondRun
    /\ period = 0
    /\ pc = "channel_delays"
    /\ tsim = Frac(1, 1)
    /\ is_ionosphere_simulated
    /\ is_troposphere_simulated
    /\ "G01" \in DOMAIN observables[nperiods]
    /\ observables[nperiods]["G01"].cn0[1] = 19999700
    /\ "G01" \in DOMAIN drifts
    /\ CurrentEmitters["G01"].el = 1
    /\ drifts["G01"] = -6

====
